---- MODULE Spec2Model ----
(***************************************************************************)
(* HIPAA training system: the security middleware (HIPAASecurity in        *)
(* security_middleware.py) and the Flask routes of app.py that use it.     *)
(*                                                                         *)
(* Time is one discrete clock.  datetime.now() and the database's NOW()    *)
(* both read it.  Every configured duration (timedelta(minutes=..),        *)
(* timedelta(seconds=..)) is a number of ticks of that clock; the          *)
(* configuration values are small ones, set as app.config                  *)
(* ['HIPAA_SECURITY'] overrides the defaults of HIPAASecurity.__init__.    *)
(*                                                                         *)
(* Strings whose length the code inspects (login identities) are           *)
(* sequences of one-character strings.  Python's None, and a key absent    *)
(* from the Flask session, is the value None below.                        *)
(***************************************************************************)
EXTENDS Integers, Sequences, FiniteSets, TLC

\* ---------------------------------------------------------------------
\* Bounds of the model
\* ---------------------------------------------------------------------
\* the clock stops advancing here
MaxTime == 5
\* audit_logs holds at most this many rows in the model
MaxAudit == 2
\* number of CSRF tokens generate_csrf_token hands out in the model
MaxTokens == 2
\* rows of failed_attempts in the model
MaxAttempts == 3
\* audit records in the model of the login flow (a login leaves two)
MaxAuditLogin == 6
\* audit records in the model of the CSRF flow
MaxAuditCsrf == 3
\* audit records in the model of the MFA flow (a login through MFA leaves
\* four, a failed login two)
MaxAuditMfa == 6
\* the clock stops here in the model of the MFA flow
MaxTimeMfa == 2

\* audit records in the model of the purge (two failed logins)
MaxAuditPurge == 4
\* rows of table progress per user
MaxProgressRows == 2
\* audit records in the model of the audit trail (two requests that leave
\* two each)
MaxAuditTrail == 4
\* the clock stops here in the model of logins during database outages
MaxTimeDb == 3
\* audit records in that model (two failed logins and the lockout)
MaxAuditDb == 3

\* ---------------------------------------------------------------------
\* Configuration: HIPAASecurity.config (defaults 15, 5, 15, 3600),
\* overridden through app.config['HIPAA_SECURITY'] (init_app).
\* ---------------------------------------------------------------------
SESSION_TIMEOUT_MINUTES == 2
MAX_FAILED_ATTEMPTS == 2
LOCKOUT_DURATION_MINUTES == 2
CSRF_TOKEN_TIMEOUT == 2
AUDIT_RETENTION_DAYS == 2
MFA_TOTP_INTERVAL == 1
\* certificate: the quiz score a certificate takes ("quiz_score < 80")
CERTIFICATE_MIN_SCORE == 80
\* failed_attempts.user_id is VARCHAR(100); check_brute_force tests len > 100
MAX_USER_ID_LEN == 100

\* ---------------------------------------------------------------------
\* Values
\* ---------------------------------------------------------------------
None == <<"None">>
Anonymous == <<"a", "n", "o", "n", "y", "m", "o", "u", "s">>
Alice == <<"a", "l", "i", "c", "e">>
Root == <<"r", "o", "o", "t">>
Ghost == <<"g", "h", "o", "s", "t">>
EmptyStr == <<>>
LongStr == [i \in 1..(MAX_USER_ID_LEN + 1) |-> "x"]

Clients == {"c1", "c2"}

\* The threads that serve requests at the same time, each with its own
\* connection from the pool: enough of them to overrun the lockout threshold
Workers == 1..(MAX_FAILED_ATTEMPTS + 1)

\* The credential store USERS read by login (app.py names it, never defines it).
USERS ==
    (Alice :> [user_id |-> Alice, password_hash |-> <<"pbkdf2", "alice-pw">>,
               role |-> "Pharmacist", facility |-> "General Hospital Pharmacy"])
    @@ (Root :> [user_id |-> Root, password_hash |-> <<"pbkdf2", "root-pw">>,
                 role |-> "Admin", facility |-> "General Hospital Pharmacy"])

Passwords == {"alice-pw", "root-pw", "wrong"}

\* werkzeug.security: the hash is a function of the password, compared by rehashing
generate_password_hash(password) == <<"pbkdf2", password>>
check_password_hash(pwhash, password) == pwhash = generate_password_hash(password)

\* datetime.isoformat / datetime.fromisoformat.  A session value is
\* [kind, t]: "iso" is the text isoformat wrote for time t, "malformed" a
\* string fromisoformat rejects, "absent" no value.
NoActivity == [kind |-> "absent", t |-> 0]
Malformed == [kind |-> "malformed", t |-> 0]
IsoZero == [kind |-> "iso", t |-> 0]
isoformat(time) == [IsoZero EXCEPT !.t = time]
Parses(text) == text.kind = "iso"
fromisoformat(text) == text.t

\* the element of a one-element set: The({e(v) : v \in {x}}) is e(x), with x
\* evaluated once
The(S) == CHOOSE x \in S : TRUE

EmptySession ==
    [user_id |-> None, user_role |-> "None", facility |-> "None",
     last_activity |-> NoActivity, mfa_pending |-> None]

\* ---------------------------------------------------------------------
\* Requests
\* ---------------------------------------------------------------------
\* The caller's address as the request carries it (X-Forwarded-For, else
\* remote_addr): a well-formed address, a string that is no address, or none.
GoodIp == [text |-> "203.0.113.7", wellformed |-> TRUE, len |-> 11]
BadIp == [text |-> "not-an-ip", wellformed |-> FALSE, len |-> 9]
NoIp == [text |-> "None", wellformed |-> FALSE, len |-> 0]
\* an IPv6 address with a zone identifier, of more than 45 characters
LongIp ==
    [text |-> "fe80::1%xxxxxxxxxxxxxxxxxxxxxxxxxxxxxxxxxxxxxxxx",
     wellformed |-> TRUE, len |-> 48]
IpInputs == {GoodIp, BadIp, NoIp, LongIp}

\* A CSRF token is a positive number; 0 is a request without one.
NoToken == 0
TokenInputs == 0..MaxTokens

\* Endpoint names (the view functions' names) and what the middleware's
\* substring tests make of them.
SkipValidateEndpoints == {"static", "login", "logout", "mfa_verify"}
ApiEndpoints == {"get_progress_api"}
MutatingMethods == {"POST", "PUT", "PATCH", "DELETE"}

NoRequest ==
    [client |-> "none", endpoint |-> "none", method |-> "GET", ip |-> NoIp,
     token |-> NoToken, username |-> None, password |-> "None",
     mfa_code |-> <<None, 0>>]

VARIABLES
    clock,            \* datetime.now() / NOW()
    session,          \* the Flask session of each client
    csrf_tokens,      \* table csrf_tokens: rows [token, user_id, expires_at]
    next_token,       \* the next value secrets.token_urlsafe returns
    failed_attempts,  \* table failed_attempts, in insertion order
    audit_logs,       \* table audit_logs, in insertion order
    fallback_log,     \* lines of fallback_security.log
    mfa_secret,       \* users.mfa_secret by user_id
    progress,         \* table progress: the rows of each user_id
    last,             \* the request served last and what became of it
    failed_logins,    \* history: the logins refused for their credentials
    issued,           \* history: issued[k] is the issue of token k
    db_up,            \* the PostgreSQL pool hands out working connections
    txn               \* per worker: the call it is in the middle of

vars ==
    <<clock, session, csrf_tokens, next_token, failed_attempts, audit_logs,
      fallback_log, mfa_secret, progress, last, failed_logins, issued, db_up,
      txn>>

\* ---------------------------------------------------------------------
\* Records built while a request is served.  Each is a fixed record with
\* its fields replaced.
\* ---------------------------------------------------------------------
\* table progress without a row
NoProgress == [u \in {USERS[n].user_id : n \in DOMAIN USERS} |-> <<>>]

EmptyWorld ==
    [session |-> EmptySession, csrf_tokens |-> {}, next_token |-> 1,
     failed_attempts |-> <<>>, audit_logs |-> <<>>, fallback_log |-> <<>>,
     db_up |-> TRUE, progress |-> NoProgress]

\* The session of client c and the tables
World(c) ==
    [EmptyWorld EXCEPT !.session = session[c], !.csrf_tokens = csrf_tokens,
                       !.next_token = next_token,
                       !.failed_attempts = failed_attempts,
                       !.audit_logs = audit_logs,
                       !.fallback_log = fallback_log,
                       !.db_up = db_up, !.progress = progress]

NoResult == [ok |-> FALSE, checked |-> FALSE, w |-> EmptyWorld]
\* what a check returns (ok) and the state it leaves (w)
Result(b, st) == [NoResult EXCEPT !.ok = b, !.checked = TRUE, !.w = st]
\* a check that did not apply to the request
Skipped(st) == [NoResult EXCEPT !.ok = TRUE, !.checked = FALSE, !.w = st]

NoEvent ==
    [timestamp |-> 0, event_type |-> "none", user_id |-> None,
     ip_address |-> "none", severity |-> "none"]
NoLine == [timestamp |-> 0, event_type |-> "none", severity |-> "none"]
NoTokenRow == [token |-> NoToken, user_id |-> None, expires_at |-> 0]
NoAttempt == [user_id |-> None, timestamp |-> 0, ip_address |-> "none"]

NoFailure == [username |-> None, at |-> 0]
NoIssue == [user_id |-> None, at |-> 0, used |-> FALSE]
\* a worker that is in no call
NoTxn ==
    [op |-> "none", pc |-> "idle", client |-> "none", tok |-> NoToken,
     username |-> None, ok |-> FALSE]

NoLogin == "n/a"
NoViewResult ==
    [w |-> EmptyWorld, invoked |-> FALSE, response |-> "none",
     login |-> NoLogin]
\* what a view function leaves: invoked says that its body ran
ViewResult(st, ran, resp, outcome) ==
    [NoViewResult EXCEPT !.w = st, !.invoked = ran, !.response = resp,
                         !.login = outcome]

\* ---------------------------------------------------------------------
\* HIPAASecurity.  The operators work on a record holding the session of
\* the requesting client and the tables (World).
\* ---------------------------------------------------------------------
\* _get_client_ip: the address when ipaddress.ip_address accepts it
_get_client_ip(addr) ==
    IF addr = NoIp \/ ~addr.wellformed THEN "Unknown_IP"
    ELSE IF addr.len <= 45 THEN addr.text
    ELSE "Invalid_IP"

\* Columns ip_address are INET NOT NULL: the labels are no INET values.
IsInet(text) == text \notin {"Unknown_IP", "Invalid_IP"}

\* session.get('user_id', 'anonymous')
SessionUserOrAnonymous(sess) ==
    IF sess.user_id = None THEN Anonymous ELSE sess.user_id

\* log_security_event that gives up when the insert raises
log_security_event_no_fallback(st, etype, sev, addr, now) ==
    LET event == [NoEvent EXCEPT !.timestamp = now, !.event_type = etype,
                                 !.user_id = SessionUserOrAnonymous(st.session),
                                 !.ip_address = _get_client_ip(addr),
                                 !.severity = sev]
    IN  IF st.db_up /\ IsInet(event.ip_address)
        THEN [st EXCEPT !.audit_logs = Append(@, event)]
        ELSE st

\* log_security_event that keeps the newest row only
log_security_event_overwrite(st, etype, sev, addr, now) ==
    LET event == [NoEvent EXCEPT !.timestamp = now, !.event_type = etype,
                                 !.user_id = SessionUserOrAnonymous(st.session),
                                 !.ip_address = _get_client_ip(addr),
                                 !.severity = sev]
    IN  IF st.db_up /\ IsInet(event.ip_address)
        THEN [st EXCEPT !.audit_logs = <<event>>]
        ELSE [st EXCEPT !.fallback_log =
                 Append(@, [NoLine EXCEPT !.timestamp = now,
                                          !.event_type = etype,
                                          !.severity = sev])]

\* log_security_event: a row of audit_logs, or a line of the fallback file
\* when the insert raises (no connection, or a value that fits no column).
log_security_event(st, etype, sev, addr, now) ==
    LET event == [NoEvent EXCEPT !.timestamp = now, !.event_type = etype,
                                 !.user_id = SessionUserOrAnonymous(st.session),
                                 !.ip_address = _get_client_ip(addr),
                                 !.severity = sev]
    IN  IF st.db_up /\ IsInet(event.ip_address)
        THEN [st EXCEPT !.audit_logs = Append(@, event)]
        ELSE [st EXCEPT !.fallback_log =
                 Append(@, [NoLine EXCEPT !.timestamp = now,
                                          !.event_type = etype,
                                          !.severity = sev])]

\* _validate_session with the threshold itself counted as expired
_validate_session_expire_at_threshold(st, addr, now) ==
    IF st.session.user_id = None THEN Result(FALSE, st)
    ELSE IF st.session.last_activity.kind = "absent" THEN Result(FALSE, st)
    ELSE IF ~Parses(st.session.last_activity) THEN Result(FALSE, st)
    ELSE IF now - fromisoformat(st.session.last_activity)
               >= SESSION_TIMEOUT_MINUTES
    THEN Result(FALSE,
                [log_security_event(st, "SESSION_TIMEOUT", "INFO", addr, now)
                    EXCEPT !.session = EmptySession])
    ELSE Result(TRUE, [st EXCEPT !.session.last_activity = isoformat(now)])

\* _validate_session without the refresh of last_activity
_validate_session_no_refresh(st, addr, now) ==
    IF st.session.user_id = None THEN Result(FALSE, st)
    ELSE IF st.session.last_activity.kind = "absent" THEN Result(FALSE, st)
    ELSE IF ~Parses(st.session.last_activity) THEN Result(FALSE, st)
    ELSE IF now - fromisoformat(st.session.last_activity)
               > SESSION_TIMEOUT_MINUTES
    THEN Result(FALSE,
                [log_security_event(st, "SESSION_TIMEOUT", "INFO", addr, now)
                    EXCEPT !.session = EmptySession])
    ELSE Result(TRUE, st)

\* _validate_session that clears the session before it logs the timeout
_validate_session_clear_first(st, addr, now) ==
    IF st.session.user_id = None THEN Result(FALSE, st)
    ELSE IF st.session.last_activity.kind = "absent" THEN Result(FALSE, st)
    ELSE IF ~Parses(st.session.last_activity) THEN Result(FALSE, st)
    ELSE IF now - fromisoformat(st.session.last_activity)
               > SESSION_TIMEOUT_MINUTES
    THEN Result(FALSE,
                log_security_event([st EXCEPT !.session = EmptySession],
                                   "SESSION_TIMEOUT", "INFO", addr, now))
    ELSE Result(TRUE, [st EXCEPT !.session.last_activity = isoformat(now)])

\* _validate_session: ok, and the session refreshed or cleared
_validate_session(st, addr, now) ==
    IF st.session.user_id = None THEN Result(FALSE, st)
    ELSE IF st.session.last_activity.kind = "absent" THEN Result(FALSE, st)
    ELSE IF ~Parses(st.session.last_activity) THEN Result(FALSE, st)
    ELSE IF now - fromisoformat(st.session.last_activity)
               > SESSION_TIMEOUT_MINUTES
    THEN Result(FALSE,
                [log_security_event(st, "SESSION_TIMEOUT", "INFO", addr, now)
                    EXCEPT !.session = EmptySession])
    ELSE Result(TRUE, [st EXCEPT !.session.last_activity = isoformat(now)])

\* _validate_csrf_token_internal that leaves the row in place
_validate_csrf_token_internal_no_delete(st, tok, now) ==
    LET result == {r \in st.csrf_tokens : r.token = tok /\ r.expires_at > now}
    IN  IF \E r \in result : r.user_id = st.session.user_id
        THEN Result(TRUE, st)
        ELSE Result(FALSE, st)

\* _validate_csrf_token_internal that does not compare the owner
_validate_csrf_token_internal_any_owner(st, tok, now) ==
    LET result == {r \in st.csrf_tokens : r.token = tok /\ r.expires_at > now}
    IN  IF result # {}
        THEN Result(TRUE,
                    [st EXCEPT !.csrf_tokens = {r \in @ : r.token # tok}])
        ELSE Result(FALSE, st)

\* _validate_csrf_token_internal that accepts a token at expires_at
_validate_csrf_token_internal_at_expiry(st, tok, now) ==
    LET result == {r \in st.csrf_tokens : r.token = tok /\ r.expires_at >= now}
    IN  IF \E r \in result : r.user_id = st.session.user_id
        THEN Result(TRUE,
                    [st EXCEPT !.csrf_tokens = {r \in @ : r.token # tok}])
        ELSE Result(FALSE, st)

\* _validate_csrf_token_internal that deletes the row it found, whoever
\* presented the token
_validate_csrf_token_internal_consume_always(st, tok, now) ==
    LET result == {r \in st.csrf_tokens : r.token = tok /\ r.expires_at > now}
    IN  IF ~st.db_up THEN Result(FALSE, st)
        ELSE IF \E r \in result : r.user_id = st.session.user_id
        THEN Result(TRUE,
                    [st EXCEPT !.csrf_tokens = {r \in @ : r.token # tok}])
        ELSE Result(FALSE,
                    [st EXCEPT !.csrf_tokens = {r \in @ : r.token # tok}])

\* _validate_csrf_token_internal
_validate_csrf_token_internal(st, tok, now) ==
    LET result == {r \in st.csrf_tokens : r.token = tok /\ r.expires_at > now}
    IN  IF ~st.db_up THEN Result(FALSE, st)
        ELSE IF \E r \in result : r.user_id = st.session.user_id
        THEN Result(TRUE,
                    [st EXCEPT !.csrf_tokens = {r \in @ : r.token # tok}])
        ELSE Result(FALSE, st)

\* _validate_csrf_token; the 403 response it builds is its return value.
_validate_csrf_token(st, req, now) ==
    IF req.method \notin MutatingMethods THEN Skipped(st)
    ELSE IF req.endpoint \in ApiEndpoints THEN Skipped(st)
    ELSE LET v == IF req.token = NoToken
                  THEN Result(FALSE, st)
                  ELSE _validate_csrf_token_internal(st, req.token, now)
         IN  IF v.ok
             THEN Result(TRUE, v.w)
             ELSE Result(FALSE,
                         log_security_event(v.w, "CSRF_VALIDATION_FAILED",
                                            "WARNING", req.ip, now))

\* generate_csrf_token: the state with the new token stored
generate_csrf_token(st, now) ==
    LET row == [NoTokenRow EXCEPT
                   !.token = st.next_token,
                   !.user_id = SessionUserOrAnonymous(st.session),
                   !.expires_at = now + CSRF_TOKEN_TIMEOUT]
    IN  IF ~st.db_up THEN st
        ELSE [st EXCEPT !.csrf_tokens = @ \cup {row}, !.next_token = @ + 1]

\* Rows of failed_attempts of uid newer than cutoff_time
RecentAttempts(attempts, uid, cutoff_time) ==
    Len(SelectSeq(attempts,
                  LAMBDA r : r.user_id = uid /\ r.timestamp > cutoff_time))

\* check_brute_force that allows one attempt more
check_brute_force_one_more(st, uid, addr, now) ==
    IF uid = None \/ uid = EmptyStr \/ Len(uid) > MAX_USER_ID_LEN
    THEN Result(FALSE, st)
    ELSE LET cutoff_time == now - LOCKOUT_DURATION_MINUTES
             recent_attempts ==
                 RecentAttempts(st.failed_attempts, uid, cutoff_time)
         IN  IF recent_attempts > MAX_FAILED_ATTEMPTS
             THEN Result(FALSE,
                         log_security_event(st, "BRUTE_FORCE_LOCKOUT",
                                            "WARNING", addr, now))
             ELSE Result(TRUE, st)

\* check_brute_force that lets the login through when the count cannot be
\* read
check_brute_force_fail_open(st, uid, addr, now) ==
    IF uid = None \/ uid = EmptyStr \/ Len(uid) > MAX_USER_ID_LEN
    THEN Result(FALSE, st)
    ELSE IF ~st.db_up THEN Result(TRUE, st)
    ELSE LET cutoff_time == now - LOCKOUT_DURATION_MINUTES
             recent_attempts ==
                 RecentAttempts(st.failed_attempts, uid, cutoff_time)
         IN  IF recent_attempts >= MAX_FAILED_ATTEMPTS
             THEN Result(FALSE,
                         log_security_event(st, "BRUTE_FORCE_LOCKOUT",
                                            "WARNING", addr, now))
             ELSE Result(TRUE, st)

\* check_brute_force: ok is "login is allowed"
check_brute_force(st, uid, addr, now) ==
    IF uid = None \/ uid = EmptyStr \/ Len(uid) > MAX_USER_ID_LEN
    THEN Result(FALSE, st)
    ELSE IF ~st.db_up THEN Result(FALSE, st)
    ELSE LET cutoff_time == now - LOCKOUT_DURATION_MINUTES
             recent_attempts ==
                 RecentAttempts(st.failed_attempts, uid, cutoff_time)
         IN  IF recent_attempts >= MAX_FAILED_ATTEMPTS
             THEN Result(FALSE,
                         log_security_event(st, "BRUTE_FORCE_LOCKOUT",
                                            "WARNING", addr, now))
             ELSE Result(TRUE, st)

\* record_failed_attempt: the insert raises, and is swallowed, when a value
\* does not fit its column (user_id VARCHAR(100) NOT NULL, ip_address INET).
record_failed_attempt(st, uid, addr, now) ==
    IF /\ st.db_up
       /\ uid # None /\ Len(uid) <= MAX_USER_ID_LEN
       /\ IsInet(_get_client_ip(addr))
    THEN [st EXCEPT !.failed_attempts =
             Append(@, [NoAttempt EXCEPT !.user_id = uid, !.timestamp = now,
                                         !.ip_address = _get_client_ip(addr)])]
    ELSE st

\* clear_failed_attempts
clear_failed_attempts(st, uid) ==
    IF ~st.db_up THEN st
    ELSE [st EXCEPT !.failed_attempts = SelectSeq(@, LAMBDA r : r.user_id # uid)]

\* pyotp.TOTP(secret, interval).now() at time now: the code of the secret
\* and of the interval the time lies in
TotpCode(secret, now) == <<secret, now \div MFA_TOTP_INTERVAL>>

\* verify_mfa; mfa is users.mfa_secret
verify_mfa(st, uid, code, addr, now, mfa) ==
    IF ~st.db_up THEN Result(FALSE, st)
    ELSE IF uid \notin DOMAIN mfa THEN Result(FALSE, st)
    ELSE IF mfa[uid] = None THEN Result(FALSE, st)
    ELSE IF code = TotpCode(mfa[uid], now)
    THEN Result(TRUE,
                log_security_event(st, "MFA_VERIFIED", "INFO", addr, now))
    ELSE Result(FALSE,
                log_security_event(st, "MFA_FAILED", "WARNING", addr, now))

\* get_audit_logs(user_id, days, severity): the rows newer than the cutoff
\* that pass the filters (None is no filter), newest first; an empty list
\* when the query raises.
RECURSIVE SortDesc(_)
SortDesc(rows) ==
    IF rows = <<>> THEN <<>>
    ELSE LET top == CHOOSE i \in DOMAIN rows :
                       \A j \in DOMAIN rows :
                          \/ rows[j].timestamp < rows[i].timestamp
                          \/ rows[j].timestamp = rows[i].timestamp /\ j <= i
         IN  <<rows[top]>> \o
             SortDesc([k \in 1..(Len(rows) - 1) |->
                          IF k < top THEN rows[k] ELSE rows[k + 1]])

\* "if user_id:", "if severity:": None and the empty string are no filter
GivenUser(uid) == uid \notin {None, EmptyStr}
GivenSeverity(sev) == sev \notin {"None", ""}

\* get_audit_logs that takes the rows at the cutoff too
get_audit_logs_at_cutoff(st, uid, days, sev, now) ==
    IF ~st.db_up THEN <<>>
    ELSE SortDesc(SelectSeq(st.audit_logs,
                     LAMBDA r : /\ r.timestamp >= now - days
                                /\ GivenUser(uid) => r.user_id = uid
                                /\ GivenSeverity(sev) => r.severity = sev))

get_audit_logs(st, uid, days, sev, now) ==
    IF ~st.db_up THEN <<>>
    ELSE SortDesc(SelectSeq(st.audit_logs,
                     LAMBDA r : /\ r.timestamp > now - days
                                /\ GivenUser(uid) => r.user_id = uid
                                /\ GivenSeverity(sev) => r.severity = sev))

\* ---------------------------------------------------------------------
\* app.py: the view functions
\* ---------------------------------------------------------------------
\* login that counts a failure only against an account that exists
login_with_known_only(users, st, req, now, mfa) ==
    IF req.method # "POST"
    THEN ViewResult(st, TRUE, "login.html", NoLogin)
    ELSE
    LET bf == check_brute_force(st, req.username, req.ip, now)
    IN  IF ~bf.ok
        THEN ViewResult(bf.w, TRUE, "login.html", "locked")
        ELSE IF req.username \in DOMAIN users
                /\ check_password_hash(users[req.username].password_hash,
                                       req.password)
        THEN LET user == users[req.username]
                 s1 == [bf.w EXCEPT
                           !.session.user_id = user.user_id,
                           !.session.user_role = user.role,
                           !.session.facility = user.facility,
                           !.session.last_activity = isoformat(now)]
             IN  IF user.user_id \in DOMAIN mfa /\ mfa[user.user_id] # None
                 THEN ViewResult(
                          [s1 EXCEPT !.session.mfa_pending = user.user_id],
                          TRUE, "redirect:mfa_verify", "mfa")
                 ELSE ViewResult(
                          log_security_event(
                              clear_failed_attempts(s1, req.username),
                              "LOGIN_SUCCESS", "INFO", req.ip, now),
                          TRUE, "redirect:index", "success")
        ELSE ViewResult(
                 log_security_event(
                     IF req.username \in DOMAIN users
                     THEN record_failed_attempt(bf.w, req.username, req.ip,
                                                now)
                     ELSE bf.w,
                     "LOGIN_FAILED", "WARNING", req.ip, now),
                 TRUE, "login.html", "failed")

\* login that counts the attempts it refuses for the lockout
login_with_count_locked(users, st, req, now, mfa) ==
    IF req.method # "POST"
    THEN ViewResult(st, TRUE, "login.html", NoLogin)
    ELSE
    LET bf == check_brute_force(st, req.username, req.ip, now)
    IN  IF ~bf.ok
        THEN ViewResult(record_failed_attempt(bf.w, req.username, req.ip,
                                              now),
                        TRUE, "login.html", "locked")
        ELSE IF req.username \in DOMAIN users
                /\ check_password_hash(users[req.username].password_hash,
                                       req.password)
        THEN LET user == users[req.username]
                 s1 == [bf.w EXCEPT
                           !.session.user_id = user.user_id,
                           !.session.user_role = user.role,
                           !.session.facility = user.facility,
                           !.session.last_activity = isoformat(now)]
             IN  IF user.user_id \in DOMAIN mfa /\ mfa[user.user_id] # None
                 THEN ViewResult(
                          [s1 EXCEPT !.session.mfa_pending = user.user_id],
                          TRUE, "redirect:mfa_verify", "mfa")
                 ELSE ViewResult(
                          log_security_event(
                              clear_failed_attempts(s1, req.username),
                              "LOGIN_SUCCESS", "INFO", req.ip, now),
                          TRUE, "redirect:index", "success")
        ELSE ViewResult(
                 log_security_event(
                     record_failed_attempt(bf.w, req.username, req.ip, now),
                     "LOGIN_FAILED", "WARNING", req.ip, now),
                 TRUE, "login.html", "failed")

\* login (GET and POST) over the credential store users; mfa is
\* users.mfa_secret
login_with(users, st, req, now, mfa) ==
    IF req.method # "POST"
    THEN ViewResult(st, TRUE, "login.html", NoLogin)
    ELSE
    LET bf == check_brute_force(st, req.username, req.ip, now)
    IN  IF ~bf.ok
        THEN ViewResult(bf.w, TRUE, "login.html", "locked")
        ELSE IF req.username \in DOMAIN users
                /\ check_password_hash(users[req.username].password_hash,
                                       req.password)
        THEN LET user == users[req.username]
                 s1 == [bf.w EXCEPT
                           !.session.user_id = user.user_id,
                           !.session.user_role = user.role,
                           !.session.facility = user.facility,
                           !.session.last_activity = isoformat(now)]
             IN  IF user.user_id \in DOMAIN mfa /\ mfa[user.user_id] # None
                 THEN ViewResult(
                          [s1 EXCEPT !.session.mfa_pending = user.user_id],
                          TRUE, "redirect:mfa_verify", "mfa")
                 ELSE ViewResult(
                          log_security_event(
                              clear_failed_attempts(s1, req.username),
                              "LOGIN_SUCCESS", "INFO", req.ip, now),
                          TRUE, "redirect:index", "success")
        ELSE ViewResult(
                 log_security_event(
                     record_failed_attempt(bf.w, req.username, req.ip, now),
                     "LOGIN_FAILED", "WARNING", req.ip, now),
                 TRUE, "login.html", "failed")

\* login (GET and POST) over USERS
login(st, req, now, mfa) == login_with(USERS, st, req, now, mfa)

\* logout (GET /logout): SecurityEvent has no member LOGOUT, so building
\* the arguments of log_security_event raises AttributeError and the view
\* ends there, before session.clear().
logout(st, req, now) ==
    ViewResult(st, TRUE, "500:AttributeError", NoLogin)

\* mfa_verify (GET and POST /mfa_verify); mfa is users.mfa_secret
mfa_verify(st, req, now, mfa) ==
    IF st.session.mfa_pending = None
    THEN ViewResult(st, TRUE, "redirect:login", NoLogin)
    ELSE IF req.method # "POST"
    THEN ViewResult(st, TRUE, "mfa_verify.html", NoLogin)
    ELSE
    LET v == verify_mfa(st, st.session.mfa_pending, req.mfa_code, req.ip,
                        now, mfa)
    IN  IF v.ok
        THEN ViewResult(
                 log_security_event(
                     [v.w EXCEPT !.session.mfa_pending = None],
                     "MFA_VERIFIED", "INFO", req.ip, now),
                 TRUE, "redirect:index", "mfa_verified")
        ELSE ViewResult(
                 log_security_event(v.w, "MFA_FAILED", "WARNING", req.ip, now),
                 TRUE, "mfa_verify.html", "mfa_failed")

\* get_csrf_token (GET /api/csrf_token)
get_csrf_token(st, req, now) ==
    ViewResult(generate_csrf_token(st, now), TRUE, "json:csrf_token", NoLogin)

\* extend_session (POST /api/extend_session)
extend_session(st, req, now) ==
    ViewResult(
        log_security_event(
            [st EXCEPT !.session.last_activity = isoformat(now)],
            "SESSION_EXTENDED", "INFO", req.ip, now),
        TRUE, "json:success", NoLogin)

\* lessons (GET /lessons): reads the user's progress
lessons(st, req, now) ==
    ViewResult(st, TRUE, "lessons.html", NoLogin)

\* get_user_progress(user_id), the keys the certificate reads: the defaults,
\* overwritten by every row of the user that has quiz_taken set, in the
\* order the rows are fetched.  The rows' other columns (lessons, checklist)
\* are left out.
NoProgressRow == [quiz_taken |-> FALSE, quiz_score |-> 0]

get_user_progress(st, uid) ==
    LET rows == IF uid \in DOMAIN st.progress THEN st.progress[uid] ELSE <<>>
        taken == SelectSeq(rows, LAMBDA p : p.quiz_taken)
    IN  IF taken = <<>> THEN NoProgressRow
        ELSE [NoProgressRow EXCEPT !.quiz_taken = TRUE,
                                   !.quiz_score = taken[Len(taken)].quiz_score]

\* certificate that is content with any quiz that was taken
certificate_any_score(st, req, now) ==
    IF ~st.db_up
    THEN ViewResult(st, TRUE, "500:OperationalError", NoLogin)
    ELSE
    LET user_progress == get_user_progress(st, st.session.user_id)
    IN  IF ~user_progress.quiz_taken
        THEN ViewResult(
                 log_security_event(st, "UNAUTHORIZED_ROLE_ACCESS", "WARNING",
                                    req.ip, now),
                 TRUE, "redirect:quiz", NoLogin)
        ELSE ViewResult(st, TRUE, "certificate.html", NoLogin)

\* certificate (GET /certificate); get_user_progress raises when the
\* progress is in no cache and the database is away
certificate(st, req, now) ==
    IF ~st.db_up
    THEN ViewResult(st, TRUE, "500:OperationalError", NoLogin)
    ELSE
    LET user_progress == get_user_progress(st, st.session.user_id)
    IN  IF ~user_progress.quiz_taken
           \/ user_progress.quiz_score < CERTIFICATE_MIN_SCORE
        THEN ViewResult(
                 log_security_event(st, "UNAUTHORIZED_ROLE_ACCESS", "WARNING",
                                    req.ip, now),
                 TRUE, "redirect:quiz", NoLogin)
        ELSE ViewResult(st, TRUE, "certificate.html", NoLogin)

\* admin_audit_logs (GET /admin/audit_logs): reads get_audit_logs(days=30)
admin_audit_logs(st, req, now) ==
    ViewResult(st, TRUE, "admin_audit_logs.html", NoLogin)

\* ---------------------------------------------------------------------
\* The guards
\* ---------------------------------------------------------------------
\* f(*args, **kwargs) in a decorator: the call of the function it wraps,
\* f being that function's name.
Wrapped(f, st, req, now) ==
    CASE f = "lessons" -> lessons(st, req, now)
      [] f = "get_csrf_token" -> get_csrf_token(st, req, now)
      [] f = "extend_session" -> extend_session(st, req, now)
      [] f = "admin_audit_logs" -> admin_audit_logs(st, req, now)
      [] f = "certificate" -> certificate(st, req, now)

\* require_authentication whose refusal does not return
require_authentication_no_return(f, st, req, now) ==
    LET v == _validate_session(st, req.ip, now)
    IN  IF ~v.ok
        THEN Wrapped(f, log_security_event(v.w, "UNAUTHENTICATED_ACCESS",
                                           "WARNING", req.ip, now),
                     req, now)
        ELSE Wrapped(f, v.w, req, now)

\* require_authentication(f)
require_authentication(f, st, req, now) ==
    LET v == _validate_session(st, req.ip, now)
    IN  IF ~v.ok
        THEN ViewResult(log_security_event(v.w, "UNAUTHENTICATED_ACCESS",
                                           "WARNING", req.ip, now),
                        FALSE, "redirect:/login", NoLogin)
        ELSE Wrapped(f, v.w, req, now)

\* require_role that checks the session only
require_role_any_role(required_roles, f, st, req, now) ==
    LET v == _validate_session(st, req.ip, now)
    IN  IF ~v.ok
        THEN ViewResult(v.w, FALSE, "redirect:/login", NoLogin)
        ELSE Wrapped(f, v.w, req, now)

\* require_role(*required_roles)(f)
require_role(required_roles, f, st, req, now) ==
    LET v == _validate_session(st, req.ip, now)
    IN  IF ~v.ok
        THEN ViewResult(v.w, FALSE, "redirect:/login", NoLogin)
        ELSE IF v.w.session.user_role \notin required_roles
        THEN ViewResult(log_security_event(v.w, "UNAUTHORIZED_ROLE_ACCESS",
                                           "WARNING", req.ip, now),
                        FALSE, "redirect:/unauthorized", NoLogin)
        ELSE Wrapped(f, v.w, req, now)

\* _validate_request; the redirect it builds is its return value.
_validate_request(st, req, now) ==
    IF req.endpoint \in SkipValidateEndpoints
    THEN Skipped(st)
    ELSE _validate_session(st, req.ip, now)

\* The routes of app.py and their methods
Routes ==
    [login |-> [methods |-> {"GET", "POST"}],
     logout |-> [methods |-> {"GET"}],
     mfa_verify |-> [methods |-> {"GET", "POST"}],
     lessons |-> [methods |-> {"GET"}],
     get_csrf_token |-> [methods |-> {"GET"}],
     extend_session |-> [methods |-> {"POST"}],
     admin_audit_logs |-> [methods |-> {"GET"}],
     certificate |-> [methods |-> {"GET"}]]

\* The view function Flask dispatches to, decorators applied.
View(st, req, now, mfa) ==
    CASE req.endpoint = "login" -> login(st, req, now, mfa)
      [] req.endpoint = "logout" -> logout(st, req, now)
      [] req.endpoint = "mfa_verify" -> mfa_verify(st, req, now, mfa)
      [] req.endpoint = "lessons" ->
            require_authentication("lessons", st, req, now)
      [] req.endpoint = "get_csrf_token" ->
            require_authentication("get_csrf_token", st, req, now)
      [] req.endpoint = "extend_session" ->
            require_authentication("extend_session", st, req, now)
      [] req.endpoint = "admin_audit_logs" ->
            require_role({"Admin"}, "admin_audit_logs", st, req, now)
      [] req.endpoint = "certificate" ->
            require_authentication("certificate", st, req, now)

NoOutcome ==
    [req |-> NoRequest, at |-> 0,
     session_checked |-> FALSE, session_ok |-> FALSE,
     csrf_checked |-> FALSE, csrf_ok |-> FALSE, csrf_user |-> None,
     w |-> EmptyWorld, invoked |-> FALSE, response |-> "none",
     login |-> NoLogin]

\* One request: the before_request hook of init_app, which calls
\* _validate_request and _validate_csrf_token and returns nothing, then the
\* view.
HandleRequest(st, req, now, mfa) ==
    The({[NoOutcome EXCEPT
             !.req = req, !.at = now,
             !.session_checked = vr.checked, !.session_ok = vr.ok,
             !.csrf_checked = vc.checked, !.csrf_ok = vc.ok,
             !.csrf_user = vr.w.session.user_id,
             !.w = view.w, !.invoked = view.invoked,
             !.response = view.response, !.login = view.login] :
         <<vr, vc, view>> \in
            {<<a, b, View(b.w, req, now, mfa)>> :
                <<a, b>> \in
                   {<<a, _validate_csrf_token(a.w, req, now)>> :
                       a \in {_validate_request(st, req, now)}}}})

\* ---------------------------------------------------------------------
\* _cleanup_old_data, the hourly job
\* ---------------------------------------------------------------------
\* the purge that takes the tokens that are about to expire too
CleanupCsrf_early(tokens, now) == {r \in tokens : ~(r.expires_at <= now + 1)}

CleanupCsrf(tokens, now) == {r \in tokens : ~(r.expires_at < now)}

\* the purge that takes the rows at the cutoff too
CleanupRows_at_cutoff(rows, now) ==
    SelectSeq(rows, LAMBDA r : ~(r.timestamp <= now - AUDIT_RETENTION_DAYS))

CleanupRows(rows, now) ==
    SelectSeq(rows, LAMBDA r : ~(r.timestamp < now - AUDIT_RETENTION_DAYS))

\* ---------------------------------------------------------------------
\* The state machine
\* ---------------------------------------------------------------------
\* The session a login at time 0 set up
LoggedIn(uid, role) ==
    [user_id |-> uid, user_role |-> role,
     facility |-> "General Hospital Pharmacy", last_activity |-> IsoZero,
     mfa_pending |-> None]

\* users.mfa_secret before anyone enabled MFA
NoMfa == [u \in {USERS[n].user_id : n \in DOMAIN USERS} |-> None]

\* empty tables, no request served yet
InitStore ==
    /\ clock = 0
    /\ csrf_tokens = {}
    /\ next_token = 1
    /\ failed_attempts = <<>>
    /\ audit_logs = <<>>
    /\ fallback_log = <<>>
    /\ last = [NoOutcome EXCEPT !.w = 0]
    /\ failed_logins = <<>>
    /\ issued = <<>>
    /\ db_up = TRUE
    /\ txn = [w \in Workers |-> NoTxn]

InitCommon == InitStore /\ mfa_secret = NoMfa /\ progress = NoProgress

\* Time passes.
Tick ==
    /\ clock < MaxTime
    /\ clock' = clock + 1
    /\ UNCHANGED <<session, csrf_tokens, next_token, failed_attempts,
                   audit_logs, fallback_log, mfa_secret, progress, last, failed_logins,
                   issued, db_up, txn>>

\* Time passes, up to limit.
TickUntil(limit) == clock < limit /\ Tick

\* The scheduler runs _cleanup_old_data.
Cleanup ==
    /\ csrf_tokens' = IF db_up THEN CleanupCsrf(csrf_tokens, clock)
                      ELSE csrf_tokens
    /\ failed_attempts' = IF db_up THEN CleanupRows(failed_attempts, clock)
                          ELSE failed_attempts
    /\ audit_logs' = IF db_up THEN CleanupRows(audit_logs, clock)
                     ELSE audit_logs
    /\ last' = [NoOutcome EXCEPT
                   !.w = 0, !.at = clock, !.req.endpoint = "cleanup",
                   !.response = IF audit_logs' # audit_logs
                                THEN "purged" ELSE "none"]
    /\ UNCHANGED <<clock, session, next_token, fallback_log, mfa_secret, progress,
                   failed_logins, issued, db_up, txn>>

\* user_id of the row of csrf_tokens that holds tok
TokenOwner(tokens, tok) == (CHOOSE r \in tokens : r.token = tok).user_id

\* The database goes away, or comes back.
DbFlip ==
    /\ db_up' = ~db_up
    /\ UNCHANGED <<clock, session, csrf_tokens, next_token, failed_attempts,
                   audit_logs, fallback_log, mfa_secret, progress, last, failed_logins,
                   issued, txn>>

\* The application serves one request of client req.client; the tables of
\* the model hold at most cap audit records.
Serve(req, cap) ==
    \E r \in {HandleRequest(World(req.client), req, clock, mfa_secret)} :
        /\ req.method \in Routes[req.endpoint].methods
        /\ r.w.next_token <= MaxTokens + 1
        /\ Len(r.w.failed_attempts) <= MaxAttempts
        /\ Len(r.w.audit_logs) + Len(r.w.fallback_log) <= cap
        /\ session' = [session EXCEPT ![req.client] = r.w.session]
        /\ csrf_tokens' = r.w.csrf_tokens
        /\ next_token' = r.w.next_token
        /\ failed_attempts' = r.w.failed_attempts
        /\ audit_logs' = r.w.audit_logs
        /\ fallback_log' = r.w.fallback_log
        /\ last' = [r EXCEPT !.w = 0]
        /\ failed_logins' =
              IF r.login = "failed"
              THEN Append(failed_logins,
                          [NoFailure EXCEPT !.username = req.username,
                                            !.at = clock])
              ELSE failed_logins
        /\ issued' =
              LET marked == IF r.csrf_checked /\ r.csrf_ok
                            THEN [issued EXCEPT ![req.token].used = TRUE]
                            ELSE issued
              IN  IF r.w.next_token > next_token
                  THEN Append(marked,
                              [NoIssue EXCEPT
                                  !.user_id = TokenOwner(r.w.csrf_tokens,
                                                         next_token),
                                  !.at = clock])
                  ELSE marked
        /\ UNCHANGED <<clock, mfa_secret, progress, db_up, txn>>

Login(c, names, pws, addrs, verbs, toks, cap) ==
    \E name \in names, pw \in pws, addr \in addrs, verb \in verbs,
       tok \in toks :
        Serve([NoRequest EXCEPT !.client = c, !.endpoint = "login",
                                !.method = verb, !.ip = addr, !.token = tok,
                                !.username = name, !.password = pw], cap)

Logout(c, addrs, cap) ==
    \E addr \in addrs :
        Serve([NoRequest EXCEPT !.client = c, !.endpoint = "logout",
                                !.ip = addr], cap)

MfaVerify(c, codes, addrs, verbs, cap) ==
    \E code \in codes, addr \in addrs, verb \in verbs :
        Serve([NoRequest EXCEPT !.client = c, !.endpoint = "mfa_verify",
                                !.method = verb, !.ip = addr,
                                !.mfa_code = code], cap)

Lessons(c, addrs, cap) ==
    \E addr \in addrs :
        Serve([NoRequest EXCEPT !.client = c, !.endpoint = "lessons",
                                !.ip = addr], cap)

GetCsrfToken(c, addrs, cap) ==
    \E addr \in addrs :
        Serve([NoRequest EXCEPT !.client = c, !.endpoint = "get_csrf_token",
                                !.ip = addr], cap)

ExtendSession(c, addrs, toks, cap) ==
    \E addr \in addrs, tok \in toks :
        Serve([NoRequest EXCEPT !.client = c, !.endpoint = "extend_session",
                                !.method = "POST", !.ip = addr, !.token = tok],
              cap)

Certificate(c, addrs, cap) ==
    \E addr \in addrs :
        Serve([NoRequest EXCEPT !.client = c, !.endpoint = "certificate",
                                !.ip = addr], cap)

AdminAuditLogs(c, addrs, cap) ==
    \E addr \in addrs :
        Serve([NoRequest EXCEPT !.client = c, !.endpoint = "admin_audit_logs",
                                !.ip = addr], cap)

\* ---------------------------------------------------------------------
\* SpecSession: one client, whose session the application layer set up in
\* any of the ways the session validator distinguishes, and the guarded
\* routes.
\* ---------------------------------------------------------------------
InitSessions ==
    {EmptySession, LoggedIn(Alice, "Pharmacist"), LoggedIn(Root, "Admin"),
     [LoggedIn(Alice, "Pharmacist") EXCEPT !.last_activity = Malformed],
     [LoggedIn(Alice, "Pharmacist") EXCEPT !.last_activity = NoActivity],
     LoggedIn(None, "Pharmacist")}

InitSession ==
    /\ InitCommon
    /\ \E s \in InitSessions :
          session = [c \in Clients |-> IF c = "c1" THEN s ELSE EmptySession]

NextSession ==
    \/ Tick
    \/ Lessons("c1", {GoodIp, BadIp}, MaxAudit)
    \/ GetCsrfToken("c1", {GoodIp}, MaxAudit)
    \/ ExtendSession("c1", {GoodIp}, TokenInputs, MaxAudit)
    \/ AdminAuditLogs("c1", {GoodIp, BadIp}, MaxAudit)

SpecSession == InitSession /\ [][NextSession]_vars

\* ---------------------------------------------------------------------
\* SpecLogin: one client that logs in, with right and wrong passwords, for
\* identities with and without an account, from addresses that resolve and
\* that do not.
\* ---------------------------------------------------------------------
LoginNames == {Alice, Ghost, EmptyStr, LongStr}

InitLogin ==
    /\ InitCommon
    /\ session = [c \in Clients |-> EmptySession]

NextLogin ==
    \/ Tick
    \/ Login("c1", {Alice}, {"alice-pw", "wrong"}, {GoodIp, BadIp},
             {"POST"}, {NoToken}, MaxAuditLogin)
    \/ Login("c1", LoginNames \ {Alice}, {"wrong"}, {GoodIp},
             {"POST"}, {NoToken}, MaxAuditLogin)

SpecLogin == InitLogin /\ [][NextLogin]_vars

\* ---------------------------------------------------------------------
\* SpecCsrf: two clients with sessions, one of them possibly without one;
\* they fetch tokens and post to /api/extend_session with any token, none,
\* or a number no token has; the scheduler purges.
\* ---------------------------------------------------------------------
InitCsrf ==
    /\ InitCommon
    /\ \E s \in {LoggedIn(Root, "Admin"), EmptySession} :
          session = [c \in Clients |->
                        IF c = "c1" THEN LoggedIn(Alice, "Pharmacist") ELSE s]

NextCsrf ==
    \/ Tick
    \/ Cleanup
    \/ \E c \in Clients : GetCsrfToken(c, {GoodIp}, MaxAuditCsrf)
    \/ \E c \in Clients : ExtendSession(c, {GoodIp}, TokenInputs, MaxAuditCsrf)

SpecCsrf == InitCsrf /\ [][NextCsrf]_vars

\* ---------------------------------------------------------------------
\* SpecMfa: one client; alice has enabled MFA.  She logs in with right and
\* wrong passwords, answers the MFA prompt with the current code or a wrong
\* one, uses the guarded routes and logs out.
\* ---------------------------------------------------------------------
AliceSecret == <<"JBSWY3DPEHPK3PXP">>
WrongCode == <<<<"guess">>, 0>>

InitMfa ==
    /\ InitStore
    /\ mfa_secret = [NoMfa EXCEPT ![Alice] = AliceSecret]
    /\ progress = NoProgress
    /\ session = [c \in Clients |-> EmptySession]

NextMfa ==
    \/ TickUntil(MaxTimeMfa)
    \/ Login("c1", {Alice}, {"alice-pw", "wrong"}, {GoodIp}, {"POST"},
             {NoToken}, MaxAuditMfa)
    \/ MfaVerify("c1", {TotpCode(AliceSecret, clock), WrongCode}, {GoodIp},
                 {"POST"}, MaxAuditMfa)
    \/ Lessons("c1", {GoodIp}, MaxAuditMfa)
    \/ AdminAuditLogs("c1", {GoodIp}, MaxAuditMfa)
    \/ Logout("c1", {GoodIp}, MaxAuditMfa)

SpecMfa == InitMfa /\ [][NextMfa]_vars

\* ---------------------------------------------------------------------
\* Calls that overlap.  Each worker runs its call on a connection of its
\* own; psycopg2 opens the transaction at the first statement and the with
\* block commits at its end, at PostgreSQL's default isolation level READ
\* COMMITTED: a statement sees what was committed before it started.
\* ---------------------------------------------------------------------
\* _validate_csrf_token_internal, the SELECT and the test of its result:
\* worker w validates tok for a request of client c.
CsrfSelect(w, c, tok) ==
    /\ txn[w].pc = "idle"
    /\ db_up
    /\ LET result == {r \in csrf_tokens :
                         r.token = tok /\ r.expires_at > clock}
           hit == \E r \in result : r.user_id = session[c].user_id
       IN  txn' = [txn EXCEPT ![w] =
                      [NoTxn EXCEPT !.op = "csrf", !.client = c, !.tok = tok,
                                    !.pc = IF hit THEN "delete" ELSE "return"]]
    /\ UNCHANGED <<clock, session, csrf_tokens, next_token, failed_attempts,
                   audit_logs, fallback_log, mfa_secret, progress, last, failed_logins,
                   issued, db_up>>

\* _validate_csrf_token_internal, the DELETE, the commit and return True;
\* a DELETE that finds no row is no error.
CsrfDelete(w) ==
    /\ txn[w].op = "csrf" /\ txn[w].pc = "delete"
    /\ csrf_tokens' = {r \in csrf_tokens : r.token # txn[w].tok}
    /\ txn' = [txn EXCEPT ![w].pc = "return", ![w].ok = TRUE]
    /\ UNCHANGED <<clock, session, next_token, failed_attempts, audit_logs,
                   fallback_log, mfa_secret, progress, last, failed_logins, issued,
                   db_up>>

\* The caller of worker w's call takes its result.
Return(w) ==
    /\ txn[w].pc = "return"
    /\ txn' = [txn EXCEPT ![w] = NoTxn]
    /\ UNCHANGED <<clock, session, csrf_tokens, next_token, failed_attempts,
                   audit_logs, fallback_log, mfa_secret, progress, last, failed_logins,
                   issued, db_up>>

\* ---------------------------------------------------------------------
\* SpecCsrfRace: alice fetches tokens, and her browser posts them in
\* requests that the workers validate at the same time.
\* ---------------------------------------------------------------------
InitCsrfRace ==
    /\ InitCommon
    /\ session = [c \in Clients |->
                    IF c = "c1" THEN LoggedIn(Alice, "Pharmacist")
                    ELSE EmptySession]

NextCsrfRace ==
    \/ Tick
    \/ GetCsrfToken("c1", {GoodIp}, MaxAuditCsrf)
    \/ \E w \in Workers, tok \in 1..MaxTokens : CsrfSelect(w, "c1", tok)
    \/ \E w \in Workers : CsrfDelete(w)
    \/ \E w \in Workers : Return(w)

SpecCsrfRace == InitCsrfRace /\ [][NextCsrfRace]_vars

\* ---------------------------------------------------------------------
\* SpecLoginRace: logins for alice with a wrong password, served by the
\* workers at the same time.  The steps are the calls login makes:
\* check_brute_force, then record_failed_attempt and log_security_event.
\* ---------------------------------------------------------------------
\* login up to the credential check: check_brute_force(username)
LoginCheck(w, c, name, addr) ==
    /\ txn[w].pc = "idle"
    /\ \E bf \in {check_brute_force(World(c), name, addr, clock)} :
          /\ Len(bf.w.audit_logs) <= 2 * Cardinality(Workers)
          /\ audit_logs' = bf.w.audit_logs
          /\ fallback_log' = bf.w.fallback_log
          /\ txn' = [txn EXCEPT ![w] =
                        [NoTxn EXCEPT !.op = "login", !.client = c,
                                      !.username = name, !.ok = bf.ok,
                                      !.pc = IF bf.ok THEN "credentials"
                                             ELSE "return"]]
    /\ UNCHANGED <<clock, session, csrf_tokens, next_token, failed_attempts,
                   mfa_secret, progress, last, failed_logins, issued, db_up>>

\* login from the credential check on, for a password that is wrong:
\* record_failed_attempt(username) and the LOGIN_FAILED event
LoginRecord(w, addr) ==
    /\ txn[w].op = "login" /\ txn[w].pc = "credentials"
    /\ \E st \in {log_security_event(
                      record_failed_attempt(World(txn[w].client),
                                            txn[w].username, addr, clock),
                      "LOGIN_FAILED", "WARNING", addr, clock)} :
          /\ Len(st.audit_logs) <= 2 * Cardinality(Workers)
          /\ Len(st.failed_attempts) <= Cardinality(Workers)
          /\ failed_attempts' = st.failed_attempts
          /\ audit_logs' = st.audit_logs
          /\ fallback_log' = st.fallback_log
    /\ failed_logins' =
          Append(failed_logins,
                 [NoFailure EXCEPT !.username = txn[w].username, !.at = clock])
    /\ txn' = [txn EXCEPT ![w].pc = "return"]
    /\ UNCHANGED <<clock, session, csrf_tokens, next_token, mfa_secret, progress, last,
                   issued, db_up>>

InitLoginRace ==
    /\ InitCommon
    /\ session = [c \in Clients |-> EmptySession]

NextLoginRace ==
    \/ Tick
    \/ \E w \in Workers : LoginCheck(w, "c1", Alice, GoodIp)
    \/ \E w \in Workers : LoginRecord(w, GoodIp)
    \/ \E w \in Workers : Return(w)

SpecLoginRace == InitLoginRace /\ [][NextLoginRace]_vars

\* ---------------------------------------------------------------------
\* SpecAudit: one client, with a session or without, whose requests leave
\* audit events while the database comes and goes and the scheduler purges.
\* ---------------------------------------------------------------------
InitAudit ==
    /\ InitCommon
    /\ \E s \in {EmptySession, LoggedIn(Alice, "Pharmacist")} :
          session = [c \in Clients |-> IF c = "c1" THEN s ELSE EmptySession]

NextAudit ==
    \/ Tick
    \/ DbFlip
    \/ Cleanup
    \/ Lessons("c1", {GoodIp, BadIp}, MaxAuditTrail)
    \/ ExtendSession("c1", {GoodIp}, {NoToken}, MaxAuditTrail)

SpecAudit == InitAudit /\ [][NextAudit]_vars

\* ---------------------------------------------------------------------
\* SpecLoginDb: one client that logs in for identities of every shape while
\* the database comes and goes.
\* ---------------------------------------------------------------------
NextLoginDb ==
    \/ TickUntil(MaxTimeDb)
    \/ DbFlip
    \/ Login("c1", LoginNames, {"alice-pw", "wrong"}, {GoodIp},
             {"POST"}, {NoToken}, MaxAuditDb)

SpecLoginDb == InitLogin /\ [][NextLoginDb]_vars

\* ---------------------------------------------------------------------
\* SpecCertificate: one client, with alice's session or none, asks for the
\* certificate; table progress holds any rows for alice, with quizzes taken
\* or not and scores around the threshold.
\* ---------------------------------------------------------------------
QuizScores ==
    {0, CERTIFICATE_MIN_SCORE - 1, CERTIFICATE_MIN_SCORE,
     CERTIFICATE_MIN_SCORE + 1, 100}

ProgressRows ==
    {[NoProgressRow EXCEPT !.quiz_taken = t, !.quiz_score = s] :
        t \in BOOLEAN, s \in QuizScores}

ProgressInputs ==
    UNION {[1..n -> ProgressRows] : n \in 0..MaxProgressRows}

InitCertificate ==
    /\ InitStore
    /\ mfa_secret = NoMfa
    /\ \E rows \in ProgressInputs : progress = [NoProgress EXCEPT ![Alice] = rows]
    /\ \E s \in {EmptySession, LoggedIn(Alice, "Pharmacist")} :
          session = [c \in Clients |-> IF c = "c1" THEN s ELSE EmptySession]

NextCertificate ==
    \/ Tick
    \/ Certificate("c1", {GoodIp}, MaxAudit)
    \/ Lessons("c1", {GoodIp}, MaxAudit)

SpecCertificate == InitCertificate /\ [][NextCertificate]_vars

\* ---------------------------------------------------------------------
\* SpecPurge: alice's browser fetches tokens and posts them, logins for
\* alice fail, and the scheduler purges.
\* ---------------------------------------------------------------------
InitPurge ==
    /\ InitCommon
    /\ session = [c \in Clients |->
                    IF c = "c1" THEN LoggedIn(Alice, "Pharmacist")
                    ELSE EmptySession]

NextPurge ==
    \/ Tick
    \/ Cleanup
    \/ Login("c1", {Alice}, {"wrong"}, {GoodIp}, {"POST"}, {NoToken},
             MaxAuditPurge)
    \/ GetCsrfToken("c1", {GoodIp}, MaxAuditPurge)
    \/ ExtendSession("c1", {GoodIp}, 1..MaxTokens, MaxAuditPurge)

SpecPurge == InitPurge /\ [][NextPurge]_vars

\* ---------------------------------------------------------------------
\* What a step did
\* ---------------------------------------------------------------------
\* The step served the request last' describes (at time clock, on the
\* state before the step): time, the database and the calls in flight are
\* as they were.
Served ==
    /\ clock' = clock /\ db_up' = db_up /\ txn' = txn
    /\ last'.req.endpoint \in DOMAIN Routes

\* The step was a run of _cleanup_old_data.
Purging ==
    /\ clock' = clock /\ db_up' = db_up /\ txn' = txn
    /\ last'.req.endpoint = "cleanup"

\* the records the step appended to the audit trail: rows of audit_logs, and
\* lines of the fallback file for the events whose insert raised
Appended(before, after) ==
    {[etype |-> after[i].event_type, sev |-> after[i].severity,
      at |-> after[i].timestamp] : i \in (Len(before) + 1)..Len(after)}

NewEvents ==
    Appended(audit_logs, audit_logs') \cup Appended(fallback_log, fallback_log')

Emitted(etype, sev) ==
    [etype |-> etype, sev |-> sev, at |-> clock] \in NewEvents

NewEventTypes == {e.etype : e \in NewEvents}

AuthEndpoints == {"lessons", "get_csrf_token", "extend_session"}

\* ---------------------------------------------------------------------
\* C1.  _validate_session returns true exactly when the session has a
\* user_id, a last_activity that parses, and now - last_activity <=
\* SESSION_TIMEOUT_MINUTES (at the threshold it is still valid); otherwise it
\* returns false and last_activity is not refreshed (it stays, or is cleared
\* with the session).
\* ---------------------------------------------------------------------
SessionLive(s, now) ==
    /\ s.user_id # None
    /\ Parses(s.last_activity)
    /\ now - fromisoformat(s.last_activity) <= SESSION_TIMEOUT_MINUTES

C1_ValidateSession ==
    [][(Served /\ last'.session_checked) =>
          /\ last'.session_ok <=> SessionLive(session[last'.req.client], clock)
          /\ ~last'.session_ok =>
                session'[last'.req.client].last_activity
                    \in {session[last'.req.client].last_activity, NoActivity}
      ]_vars

\* a request found a malformed last_activity and was refused
C1_Witness ==
    /\ last.session_checked /\ ~last.session_ok
    /\ session[last.req.client].last_activity = Malformed

\* ---------------------------------------------------------------------
\* C2.  A successful _validate_session sets last_activity to the current
\* time: after a request that validated at time t, the next request of the
\* session validates if and only if it comes at most SESSION_TIMEOUT_MINUTES
\* after t.
\* ---------------------------------------------------------------------
C2_SlidingExpiration ==
    [][(Served /\ last'.session_checked) =>
          /\ last'.session_ok =>
                session'[last'.req.client].last_activity = isoformat(clock)
          /\ (last.session_checked /\ last.session_ok
              /\ last.req.client = last'.req.client) =>
                (last'.session_ok
                    <=> clock - last.at <= SESSION_TIMEOUT_MINUTES)
      ]_vars

\* a session set up at time 0 still validates after more than the timeout
C2_Witness ==
    /\ last.session_checked /\ last.session_ok
    /\ last.at > SESSION_TIMEOUT_MINUTES

\* ---------------------------------------------------------------------
\* C3.  An operation behind require_authentication runs only in a request
\* whose session validation succeeded; when validation fails, an
\* UNAUTHENTICATED_ACCESS event of severity WARNING joins the audit trail
\* and the operation does not run: no token is issued, no session is
\* extended.
\* ---------------------------------------------------------------------
C3_RequireAuthentication ==
    [][(Served /\ last'.req.endpoint \in AuthEndpoints) =>
          /\ last'.invoked => last'.session_ok
          /\ ~last'.session_ok =>
                /\ ~last'.invoked
                /\ Emitted("UNAUTHENTICATED_ACCESS", "WARNING")
                /\ next_token' = next_token
                /\ "SESSION_EXTENDED" \notin NewEventTypes
                /\ session'[last'.req.client].last_activity # isoformat(clock)
                      \/ session[last'.req.client].last_activity = isoformat(clock)
      ]_vars

\* a request for a token was refused
C3_Witness ==
    /\ last.req.endpoint = "get_csrf_token"
    /\ ~last.session_ok /\ ~last.invoked
    /\ last.response = "redirect:/login"
    /\ \/ audit_logs # <<>>
          /\ audit_logs[Len(audit_logs)].event_type = "UNAUTHENTICATED_ACCESS"
       \/ fallback_log # <<>>
          /\ fallback_log[Len(fallback_log)].event_type = "UNAUTHENTICATED_ACCESS"

\* ---------------------------------------------------------------------
\* C4.  An operation behind require_role(allowed_roles) runs only when the
\* session validation succeeded and the session's role is an allowed one;
\* when the session is valid and the role is not allowed, an
\* UNAUTHORIZED_ROLE_ACCESS event of severity WARNING joins the audit trail
\* and the operation does not run.  /admin/audit_logs allows only Admin.
\* ---------------------------------------------------------------------
C4_RequireRole ==
    [][(Served /\ last'.req.endpoint = "admin_audit_logs") =>
          /\ last'.invoked =>
                /\ last'.session_ok
                /\ session[last'.req.client].user_role = "Admin"
          /\ (last'.session_ok
              /\ session[last'.req.client].user_role # "Admin") =>
                /\ ~last'.invoked
                /\ Emitted("UNAUTHORIZED_ROLE_ACCESS", "WARNING")
      ]_vars

\* a pharmacist with a live session was kept from the audit logs
C4_Witness ==
    /\ last.req.endpoint = "admin_audit_logs"
    /\ last.session_ok /\ ~last.invoked
    /\ session[last.req.client].user_role = "Pharmacist"
    /\ last.response = "redirect:/unauthorized"

\* ---------------------------------------------------------------------
\* C5.  check_brute_force(I) returns false whenever at least
\* MAX_FAILED_ATTEMPTS rows of failed_attempts for I are younger than
\* LOCKOUT_DURATION_MINUTES; older rows and rows of other identities do not
\* count, so with fewer such rows a non-empty identity of at most 100
\* characters is allowed; and after clear_failed_attempts(I) such an identity
\* is allowed whatever was recorded before.
\* ---------------------------------------------------------------------
InWindow(rows, name, now) ==
    Cardinality({i \in DOMAIN rows :
                    /\ rows[i].user_id = name
                    /\ now - rows[i].timestamp < LOCKOUT_DURATION_MINUTES})

WellFormedIdentity(name) ==
    name # None /\ Len(name) >= 1 /\ Len(name) <= MAX_USER_ID_LEN

AllowedAfterClear(name) ==
    check_brute_force(clear_failed_attempts(World("c1"), name),
                      name, GoodIp, clock).ok

C5_BruteForceWindow ==
    \A name \in LoginNames :
        /\ InWindow(failed_attempts, name, clock) >= MAX_FAILED_ATTEMPTS
              => ~check_brute_force(World("c1"), name, GoodIp, clock).ok
        /\ WellFormedIdentity(name) =>
              /\ InWindow(failed_attempts, name, clock) < MAX_FAILED_ATTEMPTS
                    => check_brute_force(World("c1"), name, GoodIp, clock).ok
              /\ AllowedAfterClear(name)

\* The claim as made: after clear_failed_attempts(I), check_brute_force(I)
\* returns true for every identity I.
C5_AsClaimed == \A name \in LoginNames : AllowedAfterClear(name)

\* a login was refused for an identity with MAX_FAILED_ATTEMPTS rows in the
\* window, which clear_failed_attempts would let in again
C5_Witness ==
    /\ last.login = "locked"
    /\ InWindow(failed_attempts, last.req.username, clock) = MAX_FAILED_ATTEMPTS
    /\ AllowedAfterClear(last.req.username)

\* rows of the identity are in the table and none of them counts any more
C5_WitnessOld ==
    /\ Len(SelectSeq(failed_attempts, LAMBDA r : r.user_id = Alice))
          >= MAX_FAILED_ATTEMPTS
    /\ InWindow(failed_attempts, Alice, clock) < MAX_FAILED_ATTEMPTS
    /\ \E i \in DOMAIN failed_attempts : failed_attempts[i].user_id = Ghost

\* ---------------------------------------------------------------------
\* C6.  Once an identity has MAX_FAILED_ATTEMPTS failed logins within the
\* last LOCKOUT_DURATION_MINUTES, a login with the right password is refused
\* and sets up no session; once LOCKOUT_DURATION_MINUTES have passed without
\* a failed login, a login with the right password succeeds.
\* ---------------------------------------------------------------------
RightPassword(req) ==
    /\ req.username \in DOMAIN USERS
    /\ check_password_hash(USERS[req.username].password_hash, req.password)

\* the failed logins of the history, as rows
FailedLoginRows ==
    [i \in DOMAIN failed_logins |->
        [NoAttempt EXCEPT !.user_id = failed_logins[i].username,
                          !.timestamp = failed_logins[i].at]]

C6_LockedAfterFailures ==
    [][(/\ Served
        /\ last'.req.endpoint = "login" /\ last'.req.method = "POST"
        /\ RightPassword(last'.req))
         => /\ InWindow(FailedLoginRows, last'.req.username, clock)
                  >= MAX_FAILED_ATTEMPTS
                => /\ last'.login = "locked"
                   /\ session' = session
            /\ InWindow(FailedLoginRows, last'.req.username, clock) = 0
                => /\ last'.login = "success"
                   /\ session'[last'.req.client].user_id
                         = USERS[last'.req.username].user_id
      ]_vars

\* ---------------------------------------------------------------------
\* C7.  A CSRF token validates exactly once: a validation of a token that
\* is unexpired, presented under its owner's session and has not validated
\* before returns true and deletes the token's row; a token that has
\* validated never validates again.
\* ---------------------------------------------------------------------
\* the step validated the token of its request against the store
CsrfValidated ==
    Served /\ last'.csrf_checked /\ last'.req.token \in DOMAIN issued

Unexpired(tok) == clock < issued[tok].at + CSRF_TOKEN_TIMEOUT

C7_ValidOnce ==
    [][CsrfValidated =>
          /\ (/\ ~issued[last'.req.token].used
              /\ Unexpired(last'.req.token)
              /\ issued[last'.req.token].user_id = last'.csrf_user)
                => /\ last'.csrf_ok
                   /\ \A r \in csrf_tokens' : r.token # last'.req.token
          /\ issued[last'.req.token].used => ~last'.csrf_ok
      ]_vars

\* the owner presented an unexpired token a second time and was refused
C7_Witness ==
    /\ last.csrf_checked /\ ~last.csrf_ok
    /\ last.req.token \in DOMAIN issued
    /\ issued[last.req.token].used
    /\ issued[last.req.token].user_id = last.csrf_user
    /\ Unexpired(last.req.token)

\* ---------------------------------------------------------------------
\* C8.  A token issued under the session of user A validates only under a
\* session whose user_id is A: never under the session of another user and
\* never under a session without user_id, even while its row is in
\* csrf_tokens and unexpired.
\* ---------------------------------------------------------------------
C8_OwnerBinding ==
    [][(CsrfValidated /\ last'.csrf_ok) =>
          /\ last'.csrf_user # None
          /\ issued[last'.req.token].user_id = last'.csrf_user
      ]_vars

\* a stored, unexpired token of one user was refused under the session of
\* another user
C8_Witness ==
    /\ last.csrf_checked /\ ~last.csrf_ok
    /\ last.csrf_user # None
    /\ \E r \in csrf_tokens :
          /\ r.token = last.req.token
          /\ r.expires_at > clock
          /\ r.user_id # last.csrf_user

\* a stored, unexpired token was refused under a session without user_id
C8_WitnessNoUser ==
    /\ last.csrf_checked /\ ~last.csrf_ok
    /\ last.csrf_user = None
    /\ \E r \in csrf_tokens :
          r.token = last.req.token /\ r.expires_at > clock

\* ---------------------------------------------------------------------
\* C9.  A POST, PUT, PATCH or DELETE request to a non-API endpoint whose
\* token is missing, unknown, expired or another user's is answered with
\* the 403 of _validate_csrf_token, its handler does not run, and a
\* CSRF_VALIDATION_FAILED event of severity WARNING joins the audit trail.
\* ---------------------------------------------------------------------
C9_CsrfFailureDenied ==
    [][(/\ Served
        /\ last'.req.method \in MutatingMethods
        /\ last'.req.endpoint \notin ApiEndpoints
        /\ ~last'.csrf_ok)
         => /\ ~last'.invoked
            /\ last'.response = "403:CSRF token validation failed"
            /\ Emitted("CSRF_VALIDATION_FAILED", "WARNING")
      ]_vars

\* ---------------------------------------------------------------------
\* C10.  A token issued at time t validates (once, under its owner's
\* session) at every time strictly before t + CSRF_TOKEN_TIMEOUT, and at no
\* time from t + CSRF_TOKEN_TIMEOUT on, used before or not.
\* ---------------------------------------------------------------------
C10_TokenExpiry ==
    [][CsrfValidated =>
          /\ last'.csrf_ok => Unexpired(last'.req.token)
          /\ (/\ Unexpired(last'.req.token)
              /\ ~issued[last'.req.token].used
              /\ issued[last'.req.token].user_id = last'.csrf_user)
                => last'.csrf_ok
      ]_vars

\* the owner presented an unused token exactly CSRF_TOKEN_TIMEOUT after its
\* issue and was refused
C10_Witness ==
    /\ last.csrf_checked /\ ~last.csrf_ok
    /\ last.req.token \in DOMAIN issued
    /\ ~issued[last.req.token].used
    /\ issued[last.req.token].user_id = last.csrf_user
    /\ clock = issued[last.req.token].at + CSRF_TOKEN_TIMEOUT

\* the owner presented a token in the last moment before its expiry and
\* was let through
C10_WitnessLast ==
    /\ last.csrf_checked /\ last.csrf_ok
    /\ clock = issued[last.req.token].at + CSRF_TOKEN_TIMEOUT - 1

\* ---------------------------------------------------------------------
\* C11.  For a user with MFA enabled, between the login that checked the
\* password and a successful verify_mfa no session passes
\* _validate_session: while the session holds mfa_pending, a request to a
\* route behind require_authentication or require_role fails the session
\* check and its operation does not run.
\* ---------------------------------------------------------------------
GuardedEndpoints == AuthEndpoints \cup {"admin_audit_logs"}

C11_MfaBeforeSession ==
    [][(/\ Served
        /\ last'.req.endpoint \in GuardedEndpoints
        /\ session[last'.req.client].mfa_pending # None)
         => /\ ~last'.session_ok
            /\ ~last'.invoked
      ]_vars

\* ---------------------------------------------------------------------
\* C12.  logout destroys the session: after a logout of a logged-in client
\* the session holds no user_id, a logout event has joined the audit trail,
\* and the session does not pass _validate_session any more.
\* ---------------------------------------------------------------------
C12_LogoutDestroysSession ==
    [][(/\ Served
        /\ last'.req.endpoint = "logout"
        /\ session[last'.req.client].user_id # None)
         => /\ session'[last'.req.client].user_id = None
            /\ "LOGOUT" \in NewEventTypes
            /\ ~SessionLive(session'[last'.req.client], clock)
      ]_vars

\* ---------------------------------------------------------------------
\* C13.  When two requests validate the same unexpired token of their
\* session's user at the same time, at most one of the validations returns
\* true, however their SELECT and DELETE steps interleave.
\* ---------------------------------------------------------------------
C13_ConcurrentValidation ==
    \A v, w \in Workers :
        (/\ v # w
         /\ txn[v].op = "csrf" /\ txn[w].op = "csrf"
         /\ txn[v].tok = txn[w].tok
         /\ txn[v].pc = "return" /\ txn[w].pc = "return")
            => ~(txn[v].ok /\ txn[w].ok)

\* ---------------------------------------------------------------------
\* C14.  When logins for one identity run at the same time, the attempts
\* with a wrong password that passed check_brute_force and reached the
\* credential check within one lockout window are never more than
\* MAX_FAILED_ATTEMPTS, however check_brute_force and record_failed_attempt
\* interleave.
\* ---------------------------------------------------------------------
C14_ConcurrentLogins ==
    InWindow(FailedLoginRows, Alice, clock) <= MAX_FAILED_ATTEMPTS

\* ---------------------------------------------------------------------
\* C15.  After a successful login of an identity, a login completed by
\* the MFA verification included, no row of failed_attempts for the identity
\* remains, and its count in the window is zero.
\* ---------------------------------------------------------------------
\* the identity whose login the step completed, None when it completed none
LoggedInBy(outcome, before) ==
    CASE outcome.login = "success" -> outcome.req.username
      [] outcome.login = "mfa_verified" -> before[outcome.req.client].mfa_pending
      [] OTHER -> None

C15_ClearedAfterLogin ==
    [][(Served /\ LoggedInBy(last', session) # None) =>
          /\ \A i \in DOMAIN failed_attempts' :
                failed_attempts'[i].user_id # LoggedInBy(last', session)
          /\ InWindow(failed_attempts', LoggedInBy(last', session), clock) = 0
      ]_vars

\* ---------------------------------------------------------------------
\* C16.  Whenever _validate_session returns false (user_id absent,
\* last_activity absent or unparsable, or the timeout exceeded) the session
\* is cleared: afterwards it holds no user_id, role, facility, last_activity
\* or mfa_pending.
\* ---------------------------------------------------------------------
C16_ClearedOnFailure ==
    [][(Served /\ last'.session_checked /\ ~last'.session_ok) =>
          session'[last'.req.client] = EmptySession
      ]_vars

\* ---------------------------------------------------------------------
\* C17.  Every request refused because its session is absent, invalid or
\* expired adds at least one event to the audit trail, behind require_role
\* as well as behind require_authentication.
\* ---------------------------------------------------------------------
C17_DenialAudited ==
    [][(/\ Served
        /\ last'.req.endpoint \in GuardedEndpoints
        /\ ~last'.session_ok
        /\ ~last'.invoked)
         => NewEvents # {}
      ]_vars

\* ---------------------------------------------------------------------
\* C18.  log_security_event does not raise when the insert into audit_logs
\* fails: every call leaves the event in audit_logs or, when the insert
\* failed, in the fallback file, and changes nothing else, so the caller
\* goes on: an extend_session of a live session runs and leaves its
\* SESSION_EXTENDED event also while the database is away.
\* ---------------------------------------------------------------------
LoggedEventTypes == {"LOGIN_FAILED", "SESSION_EXTENDED"}

\* log_security_event left this event in st, and nothing else changed
RecordedOnce(before, st, etype, sev, addr) ==
    LET Grown(old, new) ==
            /\ Len(new) = Len(old) + 1
            /\ SubSeq(new, 1, Len(old)) = old
            /\ new[Len(new)].event_type = etype
            /\ new[Len(new)].severity = sev
            /\ new[Len(new)].timestamp = clock
    IN  /\ \/ /\ Grown(before.audit_logs, st.audit_logs)
              /\ st.fallback_log = before.fallback_log
              /\ before.db_up
           \/ /\ Grown(before.fallback_log, st.fallback_log)
              /\ st.audit_logs = before.audit_logs
              /\ ~(before.db_up /\ IsInet(_get_client_ip(addr)))
        /\ st.session = before.session
        /\ st.csrf_tokens = before.csrf_tokens
        /\ st.failed_attempts = before.failed_attempts

Occurrences(rows, row) == Cardinality({i \in DOMAIN rows : rows[i] = row})

\* the tables after the step, for the session of client c
WorldAfter(c) ==
    [EmptyWorld EXCEPT !.session = session'[c], !.audit_logs = audit_logs',
                       !.db_up = db_up']

AuditFilters ==
    {<<uid, days, sev>> : uid \in {None, Alice, Anonymous},
                          days \in 1..MaxTime, sev \in {"None", "WARNING"}}

C19_AppendOnly ==
    [][/\ ~Purging =>
             /\ Len(audit_logs') >= Len(audit_logs)
             /\ SubSeq(audit_logs', 1, Len(audit_logs)) = audit_logs
       /\ Served =>
             \A f \in AuditFilters :
                LET before == get_audit_logs(World("c1"), f[1], f[2], f[3],
                                             clock)
                    after == get_audit_logs(WorldAfter("c1"), f[1], f[2],
                                            f[3], clock)
                IN  \A i \in DOMAIN before :
                       Occurrences(after, before[i])
                          >= Occurrences(before, before[i])
      ]_vars

\* a request added an event to a table that held an older one, and a query
\* over the range of both returns both
C19_Witness ==
    /\ Len(audit_logs) >= 2
    /\ last.req.endpoint \in DOMAIN Routes /\ last.at = clock
    /\ audit_logs[Len(audit_logs)].timestamp = clock
    /\ audit_logs[1].timestamp < clock
    /\ Len(get_audit_logs(World("c1"), None, MaxTime, "None", clock)) >= 2

\* ---------------------------------------------------------------------
\* C20.  _cleanup_old_data deletes every audit event whose timestamp is
\* older than now - AUDIT_RETENTION_DAYS and no event whose age is within
\* the retention window: of the rows it finds, exactly those of age at most
\* AUDIT_RETENTION_DAYS are left, in their order.
\* ---------------------------------------------------------------------
WithinRetention(row) == clock - row.timestamp <= AUDIT_RETENTION_DAYS

C20_RetentionPurge ==
    [][(Purging /\ db_up) =>
          /\ \A j \in DOMAIN audit_logs' : WithinRetention(audit_logs'[j])
          /\ \A i \in DOMAIN audit_logs :
                WithinRetention(audit_logs[i]) =>
                   Occurrences(audit_logs', audit_logs[i])
                      = Occurrences(audit_logs, audit_logs[i])
          /\ Len(audit_logs') =
                Cardinality({i \in DOMAIN audit_logs :
                                WithinRetention(audit_logs[i])})
      ]_vars

\* the purge removed an event and left one that is exactly
\* AUDIT_RETENTION_DAYS old
C20_Witness ==
    /\ last.req.endpoint = "cleanup" /\ last.response = "purged"
    /\ last.at = clock
    /\ \E i \in DOMAIN audit_logs :
          clock - audit_logs[i].timestamp = AUDIT_RETENTION_DAYS


\* ---------------------------------------------------------------------
\* C21.  check_brute_force fails closed: for an identity that is empty or
\* longer than 100 characters, and whenever the failed-attempt store cannot
\* be read, it returns false; in none of these cases does it return true.
\* Checked of check_brute_force on every reachable store and every identity
\* and address, and of the login that called it.
\* ---------------------------------------------------------------------
MustFailClosed(name) ==
    name = EmptyStr \/ Len(name) > MAX_USER_ID_LEN \/ ~db_up

C21_FailsClosed ==
    [][/\ \A name \in LoginNames, addr \in IpInputs :
             MustFailClosed(name) =>
                ~check_brute_force(World("c1"), name, addr, clock).ok
       /\ (/\ Served
           /\ last'.req.endpoint = "login" /\ last'.req.method = "POST"
           /\ MustFailClosed(last'.req.username))
          => last'.login = "locked"
      ]_vars

\* a login for alice, who has no failed attempt on record, was refused:
\* the store could not be read
C21_Witness ==
    /\ last.req.endpoint = "login" /\ last.req.username = Alice
    /\ last.login = "locked"
    /\ failed_attempts = <<>>


\* ---------------------------------------------------------------------
\* C22.  A denied login does not reveal whether the account exists: for
\* the same identity string, the same request and the same history of
\* attempts, a login that is refused for its credentials or for the lockout
\* leaves the same response, the same Failed-Attempt Records (and so the
\* same lockout), the same audit trail and the same session whether the
\* credential store holds an account of that identity or none.
\* ---------------------------------------------------------------------
\* The credential store without the account of name, and with one
WithoutAccount(name) == [n \in DOMAIN USERS \ {name} |-> USERS[n]]

WithAccount(name) ==
    [n \in DOMAIN USERS \cup {name} |->
        IF n \in DOMAIN USERS THEN USERS[n]
        ELSE [USERS[Alice] EXCEPT
                 !.user_id = name,
                 !.password_hash = generate_password_hash("alice-pw")]]

LoginRequest(name, pw, addr) ==
    [NoRequest EXCEPT !.client = "c1", !.endpoint = "login",
                      !.method = "POST", !.ip = addr,
                      !.username = name, !.password = pw]

QueryInputs ==
    {<<uid, days, sev>> : uid \in {None, Alice, Anonymous},
                          days \in 0..MaxTime,
                          sev \in {"None", "INFO", "WARNING"}}

Matches(row, uid, days, sev) ==
    /\ row.timestamp > clock - days
    /\ uid = None \/ row.user_id = uid
    /\ sev = "None" \/ row.severity = sev

NewestFirst(rows) ==
    \A i \in 1..(Len(rows) - 1) : rows[i].timestamp >= rows[i + 1].timestamp

C23_AuditQuery ==
    \A f \in QueryInputs :
       \E res \in {get_audit_logs(World("c1"), f[1], f[2], f[3], clock)} :
          IF db_up
          THEN /\ \A i \in DOMAIN res : Matches(res[i], f[1], f[2], f[3])
               /\ \A i \in DOMAIN audit_logs :
                     Matches(audit_logs[i], f[1], f[2], f[3]) =>
                        Occurrences(res, audit_logs[i])
                           = Occurrences(audit_logs, audit_logs[i])
               /\ NewestFirst(res)
          ELSE res = <<>>

\* a query by severity returns two of the four events of the table, the
\* newer one first
C23_Witness ==
    /\ db_up
    /\ Len(audit_logs) = MaxAuditTrail
    /\ \E res \in {get_audit_logs(World("c1"), Alice, MaxTime, "INFO",
                                  clock)} :
          /\ Len(res) = 2
          /\ res[1].timestamp > res[2].timestamp
          /\ res[2] = audit_logs[2]


\* ---------------------------------------------------------------------
\* C24.  The certificate operation renders a certificate only when the
\* user's progress has quiz_taken true and quiz_score >= 80; in every other
\* state of the progress (quiz not taken, or score below 80) it redirects
\* to the quiz and renders no certificate.
\* ---------------------------------------------------------------------
\* The progress of the user of the session that asks
PassedQuiz(sess) ==
    \E p \in {get_user_progress(World("c1"), sess.user_id)} :
       p.quiz_taken /\ p.quiz_score >= 80

C24_WitnessBelow ==
    /\ last.req.endpoint = "certificate"
    /\ last.response = "redirect:quiz"
    /\ get_user_progress(World("c1"), Alice).quiz_taken
    /\ get_user_progress(World("c1"), Alice).quiz_score = 79


\* ---------------------------------------------------------------------
\* C25.  When _validate_session fails because the session has expired, a
\* SESSION_TIMEOUT event of severity INFO is appended before the session is
\* cleared: the event carries the user_id of the expired session, not
\* 'anonymous', and the session is empty afterwards.
\* ---------------------------------------------------------------------
Expired(s, now) ==
    /\ s.user_id # None
    /\ Parses(s.last_activity)
    /\ now - fromisoformat(s.last_activity) > SESSION_TIMEOUT_MINUTES

C25_TimeoutEvent ==
    [][(/\ Served
        /\ last'.req.endpoint \in GuardedEndpoints
        /\ Expired(session[last'.req.client], clock))
         => /\ Emitted("SESSION_TIMEOUT", "INFO")
            /\ \A i \in (Len(audit_logs) + 1)..Len(audit_logs') :
                  audit_logs'[i].event_type = "SESSION_TIMEOUT" =>
                     /\ audit_logs'[i].user_id = session[last'.req.client].user_id
                     /\ audit_logs'[i].user_id # Anonymous
                     /\ audit_logs'[i].severity = "INFO"
            /\ session'[last'.req.client] = EmptySession
      ]_vars

\* alice's session expired: the table holds the SESSION_TIMEOUT event under
\* her user_id, followed by the refusal of the request under 'anonymous'
C25_Witness ==
    /\ session["c1"] = EmptySession
    /\ Len(audit_logs) = 2
    /\ audit_logs[1].event_type = "SESSION_TIMEOUT"
    /\ audit_logs[1].user_id = Alice /\ audit_logs[1].severity = "INFO"
    /\ audit_logs[2].event_type = "UNAUTHENTICATED_ACCESS"
    /\ audit_logs[2].user_id = Anonymous


\* ---------------------------------------------------------------------
\* C26.  Every call of record_failed_attempt(identity) increases by exactly
\* one the number of Failed-Attempt Records of that identity, whatever the
\* request's source IP resolves to (a valid address, a malformed value or
\* none), and leaves the records of all other identities unchanged.  login
\* calls it for every attempt it refuses for the credentials.
\* ---------------------------------------------------------------------
RowsOf(rows, name) == SelectSeq(rows, LAMBDA r : r.user_id = name)

C26_RecordAddsOne ==
    [][(/\ Served
        /\ last'.req.endpoint = "login" /\ last'.login = "failed")
         => /\ Len(RowsOf(failed_attempts', last'.req.username))
                  = Len(RowsOf(failed_attempts, last'.req.username)) + 1
            /\ \A name \in LoginNames \ {last'.req.username} :
                  RowsOf(failed_attempts', name) = RowsOf(failed_attempts, name)
      ]_vars


\* ---------------------------------------------------------------------
\* C27.  The source-IP resolution used for audit events returns the address
\* itself when the caller's source IP is a well-formed address of at most 45
\* characters, the label Invalid_IP when it is malformed or oversized, and
\* the label Unknown_IP when no source IP is available.  Checked of the
\* address of the request served last.
\* ---------------------------------------------------------------------
ResolvedAsClaimed(addr) ==
    _get_client_ip(addr) =
       IF addr = NoIp THEN "Unknown_IP"
       ELSE IF addr.wellformed /\ addr.len <= 45 THEN addr.text
       ELSE "Invalid_IP"

C27_ClientIp ==
    last.req.endpoint \in DOMAIN Routes => ResolvedAsClaimed(last.req.ip)


\* ---------------------------------------------------------------------
\* C28.  A login attempt rejected by check_brute_force adds no
\* Failed-Attempt Record and does not evaluate the credentials: attempts
\* made during a lockout leave the failed-attempt store unchanged, so they
\* cannot prolong the lockout, and log nobody in, whatever the password.
\* ---------------------------------------------------------------------
C28_LockedAttemptsNotCounted ==
    [][(/\ Served
        /\ last'.req.endpoint = "login" /\ last'.login = "locked")
         => /\ failed_attempts' = failed_attempts
            /\ failed_logins' = failed_logins
            /\ session' = session
            /\ "LOGIN_FAILED" \notin NewEventTypes
            /\ "LOGIN_SUCCESS" \notin NewEventTypes
      ]_vars

\* alice sent her password during her lockout and was refused
C28_Witness ==
    /\ last.req.endpoint = "login" /\ last.login = "locked"
    /\ RightPassword(last.req)
    /\ InWindow(failed_attempts, Alice, clock) >= MAX_FAILED_ATTEMPTS


\* ---------------------------------------------------------------------
\* C29.  A failed CSRF validation (unknown token, expired token, or token
\* bound to another user) leaves the token store unchanged: a token
\* presented under the wrong session is not consumed, and still validates
\* once, and only once, under its owner's session while unexpired.
\* ---------------------------------------------------------------------
\* The tables after the step, seen from a session of user uid
OwnerWorldAfter(uid) ==
    [EmptyWorld EXCEPT !.session = [EmptySession EXCEPT !.user_id = uid],
                       !.csrf_tokens = csrf_tokens', !.db_up = db_up']

C29_FailedValidationKeepsToken ==
    [][(Served /\ last'.csrf_checked /\ ~last'.csrf_ok) =>
          /\ csrf_tokens' = csrf_tokens
          /\ \A r \in csrf_tokens :
                (r.token = last'.req.token /\ r.expires_at > clock) =>
                   \E v \in {_validate_csrf_token_internal(
                                 OwnerWorldAfter(r.user_id), r.token, clock)} :
                      /\ v.ok
                      /\ ~_validate_csrf_token_internal(v.w, r.token, clock).ok
      ]_vars

\* a token was presented under a session of another user while it was
\* unexpired, the request failed the validation, and the row is in place
C29_Witness ==
    /\ last.csrf_checked /\ ~last.csrf_ok
    /\ last.at = clock
    /\ \E r \in csrf_tokens :
          /\ r.token = last.req.token
          /\ r.expires_at > clock
          /\ r.user_id # last.csrf_user
          /\ last.csrf_user # None


\* ---------------------------------------------------------------------
\* C30.  The periodic purge never changes the result of a later CSRF
\* validation or check_brute_force: it deletes only CSRF tokens that are
\* already expired, and only Failed-Attempt Records older than
\* AUDIT_RETENTION_DAYS, which lie outside the LOCKOUT_DURATION_MINUTES
\* window whenever the retention period is at least the lockout window;
\* after a purge no token with expires_at earlier than the purge time
\* remains.
\* ---------------------------------------------------------------------
\* The tables before and after the step, seen from a session of user uid
TablesBefore(uid) ==
    [World("c1") EXCEPT !.session = [EmptySession EXCEPT !.user_id = uid]]

TablesAfter(uid) ==
    [TablesBefore(uid) EXCEPT !.csrf_tokens = csrf_tokens',
                              !.failed_attempts = failed_attempts',
                              !.audit_logs = audit_logs']

C30_PurgeKeepsDecisions ==
    [][(Purging /\ db_up) =>
          /\ csrf_tokens' \subseteq csrf_tokens
          /\ \A r \in csrf_tokens \ csrf_tokens' : r.expires_at < clock
          /\ \A r \in csrf_tokens' : ~(r.expires_at < clock)
          /\ failed_attempts' =
                SelectSeq(failed_attempts,
                          LAMBDA r : clock - r.timestamp <= AUDIT_RETENTION_DAYS)
          /\ \A now \in clock..MaxTime, uid \in {Alice, Root, None},
                tok \in 1..MaxTokens :
                _validate_csrf_token_internal(TablesAfter(uid), tok, now).ok
                   = _validate_csrf_token_internal(TablesBefore(uid), tok,
                                                   now).ok
          /\ AUDIT_RETENTION_DAYS >= LOCKOUT_DURATION_MINUTES =>
                \A now \in clock..MaxTime, name \in LoginNames :
                   check_brute_force(TablesAfter(None), name, GoodIp, now).ok
                      = check_brute_force(TablesBefore(None), name, GoodIp,
                                          now).ok
      ]_vars

\* the purge has run: an expired token that nobody used is gone and an
\* unexpired one is in place, a failed attempt older than the retention
\* period is gone and one inside the lockout window is in place
C30_Witness ==
    /\ last.req.endpoint = "cleanup" /\ last.at = clock
    /\ \E k \in DOMAIN issued :
          /\ ~issued[k].used
          /\ issued[k].at + CSRF_TOKEN_TIMEOUT < clock
          /\ \A r \in csrf_tokens : r.token # k
    /\ \E r \in csrf_tokens : r.expires_at > clock
    /\ \E i \in DOMAIN failed_logins :
          clock - failed_logins[i].at > AUDIT_RETENTION_DAYS
    /\ Len(failed_attempts) = 1
    /\ InWindow(failed_attempts, Alice, clock) = 1

====
